---- MODULE Spec2Model ----
(***************************************************************************)
(* A model of utils.py: decorator, safe_try, _copy_or_call, wrap_exception *)
(* and create_enum.  The helpers are pure, so a behaviour is one call:     *)
(* Init draws the inputs of one call and one action applies the helper.    *)
(* A second specification, SpecAlias, follows a caller that keeps and      *)
(* mutates the defaults a safe_try wrapper returns.                        *)
(*                                                                         *)
(* Python objects are records.  A call's outcome is                        *)
(*   [tag |-> "return", value |-> v]            or                         *)
(*   [tag |-> "raise", type |-> k, value |-> e, tb |-> site]               *)
(* the second being Python 2's (type, value, traceback) triple.            *)
(***************************************************************************)
EXTENDS Integers, Sequences, FiniteSets, TLC

VARIABLES pc, op, inp, out, log, heap, held, decorated

vars == <<pc, op, inp, out, log, heap, held, decorated>>

(* ---------------------------------------------------------------- bounds *)
MaxOptions == 3
MaxCalls == 3
MaxLen == 2

(* ---------------------------------------------------------------- values *)
NoneV == [t |-> "NoneType"]
IntV(i) == [t |-> "int", n |-> i]
StrV(str) == [t |-> "str", s |-> str]
ListRef(r) == [t |-> "list", ref |-> r]

Return(v) == [tag |-> "return", value |-> v]
Raise(k, e, site) == [tag |-> "raise", type |-> k, value |-> e, tb |-> site]

(* The builtin exception classes the model uses, with Python 2's bases.   *)
Kinds ==
    {"BaseException", "Exception", "StandardError", "LookupError",
     "KeyError", "ValueError", "TypeError", "IndexError", "MyException"}

Base(k) ==
    CASE k = "KeyError" -> "LookupError"
      [] k = "IndexError" -> "LookupError"
      [] k = "LookupError" -> "StandardError"
      [] k = "ValueError" -> "StandardError"
      [] k = "TypeError" -> "StandardError"
      [] k = "StandardError" -> "Exception"
      [] k = "MyException" -> "Exception"
      [] k = "Exception" -> "BaseException"
      [] OTHER -> "object"

RECURSIVE issubclass(_, _)
issubclass(k, c) ==
    IF k = c THEN TRUE
    ELSE IF k \notin Kinds THEN FALSE
    ELSE issubclass(Base(k), c)

(* `except exception_types:` catches an error whose class is, or derives  *)
(* from, a member of exception_types.                                     *)
Matches(k, exception_types) == \E c \in exception_types : issubclass(k, c)

(* cls( *a): a new exception instance; nexc numbers the instances of a call *)
NewException(k, a, st) == [t |-> "exception", cls |-> k, id |-> st.nexc + 1, args |-> a]

callable(x) == x.t = "function"

(* ------------------------------------------------------ function objects *)
(* A caller-supplied function: b says what its body does.                  *)
(*   const        return self.v                                            *)
(*   raise        raise self.k()                                           *)
(*   first        lambda x, *a, **kw: x                                    *)
(*   callthrough  the docstring's art_decor: return fn( *args, **kwargs)    *)
UserFn(name, doc, b, v, k) ==
    [t |-> "function", name |-> name, doc |-> doc, module |-> "caller",
     b |-> b, v |-> v, k |-> k]

(* functools.wraps(wrapped)(f): copies __module__, __name__, __doc__       *)
wraps(wrapped, f) ==
    [f EXCEPT !.name = wrapped.name, !.doc = wrapped.doc, !.module = wrapped.module]

(* decorator(decorator_func): the new_decorator closure                    *)
decorator(decorator_func) ==
    wraps(decorator_func,
          [t |-> "function", name |-> "new_decorator", doc |-> NoneV,
           module |-> "utils", b |-> "new_decorator",
           decorator_func |-> decorator_func])

(* mutant: the wrapper takes its metadata from decorator_func, not fn       *)
new_decorator_wraps_decorator_func(self, fn) ==
    wraps(self.decorator_func,
          [t |-> "function", name |-> "wrapper", doc |-> NoneV,
           module |-> "utils", b |-> "wrapper",
           decorator_func |-> self.decorator_func, fn |-> fn])

(* new_decorator(fn): the wrapper closure                                  *)
new_decorator(self, fn) ==
    wraps(fn,
          [t |-> "function", name |-> "wrapper", doc |-> NoneV,
           module |-> "utils", b |-> "wrapper",
           decorator_func |-> self.decorator_func, fn |-> fn])

(* safe_try(exception_types, default_value): decorator applied to its      *)
(* try_decorator closure                                                   *)
safe_try(exception_types, default_value) ==
    decorator([t |-> "function", name |-> "try_decorator", doc |-> NoneV,
               module |-> "utils", b |-> "safe_try.try_decorator",
               exception_types |-> exception_types,
               default_value |-> default_value])

(* wrap_exception(exception_types, new_exception_type)                     *)
wrap_exception(exception_types, new_exception_type) ==
    decorator([t |-> "function", name |-> "try_decorator", doc |-> NoneV,
               module |-> "utils", b |-> "wrap_exception.try_decorator",
               exception_types |-> exception_types,
               new_exception_type |-> new_exception_type])

(* ----------------------------------------------------------- interpreter *)
(* st = [heap, log, nexc]: the list objects, the calls made to the         *)
(* caller's functions, the number of exception instances created.          *)
RECURSIVE Invoke(_, _, _, _)

Logged(self, args, kwargs, st) ==
    [st EXCEPT !.log = Append(@, [callee |-> self.name, args |-> args, kwargs |-> kwargs])]

(* the interpreter's own TypeError for a call that cannot bind its args    *)
BadCall(self, st) ==
    [out |-> Raise("TypeError", NewException("TypeError", <<>>, st), self.name),
     st |-> [st EXCEPT !.nexc = @ + 1]]

UserCall(self, args, kwargs, st) ==
    LET st1 == Logged(self, args, kwargs, st) IN
    CASE self.b = "const" -> [out |-> Return(self.v), st |-> st1]
      [] self.b = "raise" ->
            [out |-> Raise(self.k, NewException(self.k, <<>>, st1), self.name),
             st |-> [st1 EXCEPT !.nexc = @ + 1]]
      [] self.b = "first" ->
            IF Len(args) >= 1 THEN [out |-> Return(args[1]), st |-> st1]
            ELSE BadCall(self, st1)
      [] self.b = "callthrough" ->
            IF Len(args) >= 1 /\ callable(args[1])
            THEN Invoke(args[1], Tail(args), kwargs, st1)
            ELSE BadCall(self, st1)

(* type(func_or_value)(func_or_value)                                      *)
Reconstruct(x, st) ==
    CASE x.t = "NoneType" ->
            [out |-> Raise("TypeError", NewException("TypeError", <<>>, st), "_copy_or_call"),
             st |-> [st EXCEPT !.nexc = @ + 1]]
      [] x.t = "list" ->
            [out |-> Return(ListRef(Len(st.heap) + 1)),
             st |-> [st EXCEPT !.heap = Append(@, @[x.ref])]]
      [] OTHER -> [out |-> Return(x), st |-> st]

(* mutant: a default that is not callable is returned itself, not a copy   *)
_copy_or_call_same_object(func_or_value, args, kwargs, st) ==
    IF callable(func_or_value)
    THEN Invoke(func_or_value, args, kwargs, st)
    ELSE [out |-> Return(func_or_value), st |-> st]

_copy_or_call(func_or_value, args, kwargs, st) ==
    IF callable(func_or_value)
    THEN Invoke(func_or_value, args, kwargs, st)
    ELSE Reconstruct(func_or_value, st)

(* mutant: the default replaces the result of every call, failed or not    *)
safe_try_always_default(self, args, kwargs, st) ==
    LET r == Invoke(Head(args), Tail(args), kwargs, st) IN
    _copy_or_call(self.default_value, Tail(args), kwargs, r.st)

(* safe_try's try_decorator(fn, *args, **kwargs)                           *)
safe_try_try_decorator(self, args, kwargs, st) ==
    LET r == Invoke(Head(args), Tail(args), kwargs, st) IN
    IF r.out.tag = "raise" /\ Matches(r.out.type, self.exception_types)
    THEN _copy_or_call(self.default_value, Tail(args), kwargs, r.st)
    ELSE r

(* mutant: a bare except, every error is translated                        *)
wrap_exception_catch_all(self, args, kwargs, st) ==
    LET r == Invoke(Head(args), Tail(args), kwargs, st) IN
    IF r.out.tag = "raise"
    THEN LET new_exception == NewException(self.new_exception_type, <<r.out.value>>, r.st)
         IN [out |-> Raise(new_exception.cls, new_exception, r.out.tb),
             st |-> [r.st EXCEPT !.nexc = @ + 1]]
    ELSE r

(* mutant: raise new_exception, without the traceback of the failure       *)
wrap_exception_no_traceback(self, args, kwargs, st) ==
    LET r == Invoke(Head(args), Tail(args), kwargs, st) IN
    IF r.out.tag = "raise" /\ Matches(r.out.type, self.exception_types)
    THEN LET new_exception == NewException(self.new_exception_type, <<r.out.value>>, r.st)
         IN [out |-> Raise(new_exception.cls, new_exception, "try_decorator"),
             st |-> [r.st EXCEPT !.nexc = @ + 1]]
    ELSE r

(* wrap_exception's try_decorator(fn, *args, **kwargs)                     *)
wrap_exception_try_decorator(self, args, kwargs, st) ==
    LET r == Invoke(Head(args), Tail(args), kwargs, st) IN
    IF r.out.tag = "raise" /\ Matches(r.out.type, self.exception_types)
    THEN LET new_exception == NewException(self.new_exception_type, <<r.out.value>>, r.st)
         IN [out |-> Raise(new_exception.cls, new_exception, r.out.tb),
             st |-> [r.st EXCEPT !.nexc = @ + 1]]
    ELSE r

(* mutant: the keyword arguments are not forwarded                         *)
wrapper_drops_kwargs(self, args, kwargs, st) ==
    Invoke(self.decorator_func, <<self.fn>> \o args, {}, st)

(* wrapper( *args, **kwargs): return decorator_func(fn, *args, **kwargs)    *)
wrapper(self, args, kwargs, st) ==
    Invoke(self.decorator_func, <<self.fn>> \o args, kwargs, st)

Invoke(f, args, kwargs, st) ==
    CASE f.b = "wrapper" -> wrapper(f, args, kwargs, st)
      [] f.b = "safe_try.try_decorator" -> safe_try_try_decorator(f, args, kwargs, st)
      [] f.b = "wrap_exception.try_decorator" -> wrap_exception_try_decorator(f, args, kwargs, st)
      [] OTHER -> UserCall(f, args, kwargs, st)

(* ------------------------------------------------------------ create_enum *)
(* A name is the sequence of its characters.                               *)
Letters ==
    {"a", "b", "c", "d", "e", "f", "g", "h", "i", "j", "k", "l", "m",
     "n", "o", "p", "q", "r", "s", "t", "u", "v", "w", "x", "y", "z"}
Digits == {"1"}

isalnum(c) == c \in Letters \cup Digits

(* keyword.kwlist of Python 2 *)
kwlist ==
    {<<"a", "n", "d">>,
     <<"a", "s">>,
     <<"a", "s", "s", "e", "r", "t">>,
     <<"b", "r", "e", "a", "k">>,
     <<"c", "l", "a", "s", "s">>,
     <<"c", "o", "n", "t", "i", "n", "u", "e">>,
     <<"d", "e", "f">>,
     <<"d", "e", "l">>,
     <<"e", "l", "i", "f">>,
     <<"e", "l", "s", "e">>,
     <<"e", "x", "c", "e", "p", "t">>,
     <<"e", "x", "e", "c">>,
     <<"f", "i", "n", "a", "l", "l", "y">>,
     <<"f", "o", "r">>,
     <<"f", "r", "o", "m">>,
     <<"g", "l", "o", "b", "a", "l">>,
     <<"i", "f">>,
     <<"i", "m", "p", "o", "r", "t">>,
     <<"i", "n">>,
     <<"i", "s">>,
     <<"l", "a", "m", "b", "d", "a">>,
     <<"n", "o", "t">>,
     <<"o", "r">>,
     <<"p", "a", "s", "s">>,
     <<"p", "r", "i", "n", "t">>,
     <<"r", "a", "i", "s", "e">>,
     <<"r", "e", "t", "u", "r", "n">>,
     <<"t", "r", "y">>,
     <<"w", "h", "i", "l", "e">>,
     <<"w", "i", "t", "h">>,
     <<"y", "i", "e", "l", "d">>}

RECURSIVE join(_, _)
join(sep, names) ==
    IF names = <<>> THEN <<>>
    ELSE IF Len(names) = 1 THEN names[1]
    ELSE names[1] \o sep \o join(sep, Tail(names))

(* the first loop of namedtuple: every character alphanumeric or "_", not   *)
(* a keyword, not starting with a digit (name[0] of "" is an IndexError)    *)
BadChars(name) == \E i \in 1..Len(name) : ~isalnum(name[i]) /\ name[i] # "_"
BadName(name) ==
    BadChars(name) \/ name \in kwlist \/ name = <<>> \/ name[1] \in Digits

(* the second loop: a field name starts with "_" or was seen before         *)
BadField(field_names, i) ==
    \/ (field_names[i] # <<>> /\ field_names[i][1] = "_")
    \/ \E j \in 1..(i - 1) : field_names[j] = field_names[i]

(* collections.namedtuple(typename, field_names): the new class, or the     *)
(* error of its validation                                                  *)
namedtuple(typename, field_names, st) ==
    LET names == <<typename>> \o field_names
        bad == {i \in 1..Len(names) : BadName(names[i])}
        first == CHOOSE i \in bad : \A j \in bad : i <= j
        kind == IF ~BadChars(names[first]) /\ names[first] \notin kwlist /\ names[first] = <<>>
                THEN "IndexError" ELSE "ValueError"
    IN  IF bad # {}
        THEN [out |-> Raise(kind, NewException(kind, <<>>, st), "namedtuple"),
              st |-> [st EXCEPT !.nexc = @ + 1]]
        ELSE IF \E i \in 1..Len(field_names) : BadField(field_names, i)
        THEN [out |-> Raise("ValueError", NewException("ValueError", <<>>, st), "namedtuple"),
              st |-> [st EXCEPT !.nexc = @ + 1]]
        ELSE [out |-> Return([t |-> "class", typename |-> typename, fields |-> field_names]),
              st |-> st]

(* _enum_type( *options): one positional value per field                    *)
Construct(class, values, st) ==
    IF Len(values) # Len(class.fields)
    THEN [out |-> Raise("TypeError", NewException("TypeError", <<>>, st), class.typename),
          st |-> [st EXCEPT !.nexc = @ + 1]]
    ELSE [out |-> Return([t |-> "namedtuple", typename |-> class.typename,
                          fields |-> class.fields, values |-> values]),
          st |-> st]

RECURSIVE Reverse(_)
Reverse(q) == IF q = <<>> THEN <<>> ELSE Append(Reverse(Tail(q)), Head(q))

RECURSIVE Unique(_)
Unique(q) ==
    IF q = <<>> THEN <<>>
    ELSE LET rest == Unique(SubSeq(q, 1, Len(q) - 1))
         IN  IF \E i \in 1..Len(rest) : rest[i] = q[Len(q)] THEN rest
             ELSE Append(rest, q[Len(q)])

(* mutant: the values are given in reverse order                           *)
create_enum_reversed(options, st) ==
    LET r == namedtuple(join(<<"_">>, options) \o <<"_", "t", "y", "p", "e">>, options, st) IN
    IF r.out.tag = "raise" THEN r ELSE Construct(r.out.value, Reverse(options), r.st)

(* mutant: repeated names are dropped before the type is made              *)
create_enum_unique(options, st) ==
    LET r == namedtuple(join(<<"_">>, Unique(options)) \o <<"_", "t", "y", "p", "e">>,
                        Unique(options), st) IN
    IF r.out.tag = "raise" THEN r ELSE Construct(r.out.value, Unique(options), r.st)

create_enum(options, st) ==
    LET r == namedtuple(join(<<"_">>, options) \o <<"_", "t", "y", "p", "e">>, options, st) IN
    IF r.out.tag = "raise" THEN r ELSE Construct(r.out.value, options, r.st)

(* obj.name: the property of the last field called name                     *)
getattr(obj, name) ==
    LET at == {i \in 1..Len(obj.fields) : obj.fields[i] = name}
    IN  obj.values[CHOOSE i \in at : \A j \in at : j <= i]

(* ----------------------------------------------------------------- inputs *)
(* The list objects that exist before the call: 1 is [1], 2 is [[1]] and   *)
(* its element is object 3.                                                *)
Heap0 == << <<IntV(1)>>, <<ListRef(3)>>, <<IntV(1)>> >>

Store(h) == [heap |-> h, log |-> <<>>, nexc |-> 0]

RaisedKinds == {"KeyError", "LookupError", "ValueError", "TypeError", "MyException"}

Funcs ==
    {UserFn("f", StrV("doc of f"), "const", v, "") : v \in {IntV(1), NoneV, ListRef(1)}}
    \cup {UserFn("f", StrV("doc of f"), "raise", NoneV, k) : k \in RaisedKinds}
    \cup {UserFn("lookup", NoneV, "first", NoneV, "")}

ErrorSets == SUBSET {"KeyError", "LookupError", "ValueError", "Exception"}

Defaults ==
    {NoneV, IntV(0), StrV("missing"), ListRef(1), ListRef(2),
     UserFn("d", NoneV, "first", NoneV, ""),
     UserFn("d", NoneV, "const", StrV("instead"), ""),
     UserFn("d", NoneV, "raise", NoneV, "ValueError")}

Targets == {"MyException", "ValueError"}

Behaviours ==
    {UserFn("g", StrV("doc of g"), b, StrV("from g"), "KeyError") :
        b \in {"const", "raise", "first", "callthrough"}}

(* Keyword names are the decorated function's own parameters; the name of  *)
(* the behaviour function's first parameter (fn) is not among them.        *)
Args == {<<>>, <<IntV(3)>>, <<StrV("k"), IntV(3)>>}
Kwargs == {{}, {<<"key", IntV(5)>>}}

(* Identifier-shaped names: plain, with a digit, a keyword, a private one.  *)
Names == {<<"a">>, <<"b">>, <<"a", "1">>, <<"a", "s">>, <<"_", "a">>}

RECURSIVE SeqsUpTo(_, _)
SeqsUpTo(S, n) ==
    IF n = 0 THEN {<<>>}
    ELSE LET shorter == SeqsUpTo(S, n - 1)
         IN  shorter \cup {Append(q, x) : q \in {r \in shorter : Len(r) = n - 1}, x \in S}

SafeTryInputs ==
    [fn : Funcs, exception_types : ErrorSets, default_value : Defaults,
     args : Args, kwargs : Kwargs]

WrapInputs ==
    [fn : Funcs, exception_types : ErrorSets, new_exception_type : Targets,
     args : Args, kwargs : Kwargs]

DecoratorInputs ==
    [decorator_func : Behaviours, fn : Funcs, args : Args, kwargs : Kwargs]

EnumInputs == [options : SeqsUpTo(Names, MaxOptions)]

(* --------------------------------------------------------------- one call *)
NoOut == [tag |-> "none"]

Init ==
    /\ pc = "ready"
    /\ out = NoOut
    /\ log = <<>>
    /\ heap = Heap0
    /\ held = <<>>
    /\ decorated = NoneV
    /\ \/ op = "wrap_exception" /\ inp \in WrapInputs
       \/ op = "safe_try" /\ inp \in SafeTryInputs
       \/ op = "decorator" /\ inp \in DecoratorInputs
       \/ op = "create_enum" /\ inp \in EnumInputs

(* w( *args, **kwargs), and what the caller sees of it                      *)
CallDecorated(w) ==
    LET r == Invoke(w, inp.args, inp.kwargs, Store(heap)) IN
    /\ decorated' = w
    /\ out' = r.out
    /\ log' = r.st.log
    /\ heap' = r.st.heap

(* safe_try(exception_types, default_value)(fn)( *args, **kwargs)           *)
CallSafeTry ==
    /\ pc = "ready" /\ op = "safe_try"
    /\ CallDecorated(new_decorator(safe_try(inp.exception_types, inp.default_value), inp.fn))
    /\ pc' = "done"
    /\ UNCHANGED <<op, inp, held>>

(* wrap_exception(exception_types, new_exception_type)(fn)( *args, **kwargs) *)
CallWrapException ==
    /\ pc = "ready" /\ op = "wrap_exception"
    /\ CallDecorated(new_decorator(wrap_exception(inp.exception_types, inp.new_exception_type), inp.fn))
    /\ pc' = "done"
    /\ UNCHANGED <<op, inp, held>>

(* decorator(decorator_func)(fn)( *args, **kwargs)                          *)
CallDecorator ==
    /\ pc = "ready" /\ op = "decorator"
    /\ CallDecorated(new_decorator(decorator(inp.decorator_func), inp.fn))
    /\ pc' = "done"
    /\ UNCHANGED <<op, inp, held>>

(* create_enum(options)                                                     *)
CallCreateEnum ==
    /\ pc = "ready" /\ op = "create_enum"
    /\ LET r == create_enum(inp.options, Store(heap)) IN
        /\ out' = r.out
        /\ log' = r.st.log
        /\ heap' = r.st.heap
    /\ pc' = "done"
    /\ UNCHANGED <<op, inp, held, decorated>>

Next == CallSafeTry \/ CallWrapException \/ CallDecorator \/ CallCreateEnum

Spec == Init /\ [][Next]_vars

(* ------------------------------------------------- a caller that mutates *)
(* The caller decorates a function that always fails with a caught error,  *)
(* gives a list as default_value, keeps every value the wrapper returns    *)
(* and mutates the kept values between the calls.                          *)
AliasInputs ==
    {i \in SafeTryInputs :
        /\ i.default_value.t = "list"
        /\ i.fn.b = "raise" /\ i.fn.k = "KeyError"
        /\ i.exception_types = {"KeyError"}
        /\ i.kwargs = {}}

InitAlias ==
    /\ pc = "ready"
    /\ op = "safe_try"
    /\ inp \in AliasInputs
    /\ out = NoOut
    /\ log = <<>>
    /\ heap = Heap0
    /\ held = <<>>
    /\ decorated = NoneV

(* x = wrapped( *args, **kwargs); the caller keeps x                       *)
KeepDefault ==
    /\ op = "safe_try"
    /\ Len(held) < MaxCalls
    /\ CallDecorated(new_decorator(safe_try(inp.exception_types, inp.default_value), inp.fn))
    /\ held' = IF out'.tag = "return" THEN Append(held, out'.value) ELSE held
    /\ pc' = "called"
    /\ UNCHANGED <<op, inp>>

(* x.append(v) on a kept value                                             *)
AppendHeld ==
    \E i \in 1..Len(held), v \in {IntV(7)} :
        /\ held[i].t = "list"
        /\ Len(heap[held[i].ref]) < MaxLen
        /\ heap' = [heap EXCEPT ![held[i].ref] = Append(@, v)]
        /\ pc' = "mutated"
        /\ UNCHANGED <<op, inp, out, log, held, decorated>>

(* x.pop() on a kept value                                                 *)
PopHeld ==
    \E i \in 1..Len(held) :
        /\ held[i].t = "list"
        /\ Len(heap[held[i].ref]) >= 1
        /\ heap' = [heap EXCEPT ![held[i].ref] = SubSeq(@, 1, Len(@) - 1)]
        /\ pc' = "mutated"
        /\ UNCHANGED <<op, inp, out, log, held, decorated>>

(* x[0].append(v) on a kept value whose first element is a list            *)
AppendNested ==
    \E i \in 1..Len(held), v \in {IntV(7)} :
        /\ held[i].t = "list"
        /\ Len(heap[held[i].ref]) >= 1
        /\ heap[held[i].ref][1].t = "list"
        /\ Len(heap[heap[held[i].ref][1].ref]) < MaxLen
        /\ heap' = [heap EXCEPT ![heap[held[i].ref][1].ref] = Append(@, v)]
        /\ pc' = "mutated"
        /\ UNCHANGED <<op, inp, out, log, held, decorated>>

NextAlias == KeepDefault \/ AppendHeld \/ PopHeld \/ AppendNested

SpecAlias == InitAlias /\ [][NextAlias]_vars

(* ------------------------------------------------------ reading a result *)
(* Python's == on the model's values: lists compare by their elements.     *)
RECURSIVE DeepVal(_, _)
DeepVal(h, v) ==
    IF v.t = "list"
    THEN [t |-> "listval", items |-> [i \in 1..Len(h[v.ref]) |-> DeepVal(h, h[v.ref][i])]]
    ELSE v

PyEq(h, a, b) == DeepVal(h, a) = DeepVal(h, b)

(* fn( *args, **kwargs) called undecorated on the same inputs              *)
FnCall == Invoke(inp.fn, inp.args, inp.kwargs, Store(Heap0))

FnEntry == [callee |-> inp.fn.name, args |-> inp.args, kwargs |-> inp.kwargs]

Done(o) == pc = "done" /\ op = o

Suppressed ==
    /\ Done("safe_try")
    /\ FnCall.out.tag = "raise"
    /\ Matches(FnCall.out.type, inp.exception_types)

(* ------------------------------------------------------------------ C1 *)
(* C1: when fn raises an error whose kind is in exception_types, the      *)
(* safe_try wrapper raises nothing and returns default_value if it is not *)
(* callable, and otherwise gives the result of default_value called with  *)
(* the same positional and keyword arguments.                             *)
C1_DefaultOnError ==
    (Done("safe_try") /\ FnCall.out.tag = "raise"
        /\ FnCall.out.type \in inp.exception_types)
    => IF callable(inp.default_value)
       THEN /\ out = Invoke(inp.default_value, inp.args, inp.kwargs, FnCall.st).out
            /\ log = <<FnEntry, [callee |-> inp.default_value.name,
                                 args |-> inp.args, kwargs |-> inp.kwargs]>>
       ELSE /\ out.tag = "return"
            /\ PyEq(heap, out.value, inp.default_value)

(* ------------------------------------------------------------------ C2 *)
(* C2 as stated: when fn raises an error whose kind is not a member of    *)
(* exception_types, both wrappers raise that same error unchanged.        *)
C2_NotMemberPropagates ==
    ((Done("safe_try") \/ Done("wrap_exception"))
        /\ FnCall.out.tag = "raise"
        /\ FnCall.out.type \notin inp.exception_types)
    => out = FnCall.out

(* C2 amended: when fn raises an error whose kind is neither a member of  *)
(* exception_types nor a subclass of a member, both wrappers raise that   *)
(* same error unchanged (same type, same instance, same traceback), and   *)
(* the default is not invoked.                                            *)
C2_UnmatchedPropagates ==
    ((Done("safe_try") \/ Done("wrap_exception"))
        /\ FnCall.out.tag = "raise"
        /\ ~Matches(FnCall.out.type, inp.exception_types))
    => /\ out = FnCall.out
       /\ log = <<FnEntry>>
       /\ heap = Heap0

C2_Witness ==
    /\ Done("safe_try")
    /\ inp.exception_types = {"KeyError", "LookupError"}
    /\ callable(inp.default_value)
    /\ FnCall.out.tag = "raise"
    /\ FnCall.out.type = "ValueError"
    /\ out.tag = "raise"

(* ------------------------------------------------------------------ C3 *)
(* C3: when fn does not raise, both wrappers return exactly the value fn  *)
(* returned (the same object), the default is neither returned nor        *)
(* invoked, and nothing is raised.                                        *)
C3_SuccessUnchanged ==
    ((Done("safe_try") \/ Done("wrap_exception")) /\ FnCall.out.tag = "return")
    => /\ out = FnCall.out
       /\ log = <<FnEntry>>
       /\ heap = Heap0

C3_Witness ==
    /\ Done("safe_try")
    /\ inp.exception_types # {}
    /\ callable(inp.default_value)
    /\ FnCall.out = Return(ListRef(1))
    /\ out = Return(ListRef(1))

(* ------------------------------------------------------------------ C4 *)
(* C4: when fn raises an error ex that exception_types catches (its kind  *)
(* is a member, or a subclass of one), the wrap_exception wrapper raises  *)
(* a new instance of new_exception_type built from ex, with the traceback *)
(* of the original failure site; it returns no value.                     *)
C4_Translated ==
    (Done("wrap_exception") /\ FnCall.out.tag = "raise"
        /\ Matches(FnCall.out.type, inp.exception_types))
    => /\ out.tag = "raise"
       /\ out.type = inp.new_exception_type
       /\ out.value.cls = inp.new_exception_type
       /\ out.value.args = <<FnCall.out.value>>
       /\ out.value.id # FnCall.out.value.id
       /\ out.tb = FnCall.out.tb

C4_Witness ==
    /\ Done("wrap_exception")
    /\ inp.exception_types = {"KeyError", "ValueError"}
    /\ inp.new_exception_type = "MyException"
    /\ FnCall.out.tag = "raise"
    /\ FnCall.out.type = "KeyError"
    /\ out.tag = "raise"
    /\ out.type = "MyException"

(* ------------------------------------------------------------------ C7 *)
(* decorator_func(fn, *args, **kwargs) called directly on the same inputs *)
GCall == Invoke(inp.decorator_func, <<inp.fn>> \o inp.args, inp.kwargs, Store(Heap0))

(* C7: decorator(g)(fn)(args, kwargs) invokes g exactly once, with fn     *)
(* first and then exactly those arguments, and gives g's result or error; *)
(* the only calls of fn are the ones g makes.                             *)
C7_Forwards ==
    Done("decorator")
    => /\ Len(log) >= 1
       /\ log[1] = [callee |-> inp.decorator_func.name,
                    args |-> <<inp.fn>> \o inp.args, kwargs |-> inp.kwargs]
       /\ Cardinality({i \in 1..Len(log) : log[i].callee = inp.decorator_func.name}) = 1
       /\ (inp.decorator_func.b # "callthrough" => Len(log) = 1)
       /\ out = GCall.out
       /\ log = GCall.st.log

C7_Witness ==
    /\ Done("decorator")
    /\ inp.decorator_func.b = "callthrough"
    /\ inp.args # <<>>
    /\ inp.kwargs # {}
    /\ Len(log) = 1 + 1
    /\ out.tag = "raise"

(* ------------------------------------------------------------------ C9 *)
(* C9: the wrapper made by decorator(g)(fn), and so the wrappers made by  *)
(* safe_try and wrap_exception, has the name and the documentation of fn. *)
C9_KeepsMetadata ==
    (Done("decorator") \/ Done("safe_try") \/ Done("wrap_exception"))
    => /\ decorated.name = inp.fn.name
       /\ decorated.doc = inp.fn.doc

C9_Witness ==
    /\ Done("wrap_exception")
    /\ inp.fn.name = "f"
    /\ decorated.b = "wrapper"
    /\ decorated.name = "f"
    /\ decorated.doc = StrV("doc of f")

(* ----------------------------------------------------------------- C10 *)
(* C10: with default_value omitted (None), a suppressed call returns None *)
(* and raises nothing.                                                    *)
C10_NoneDefault ==
    (Suppressed /\ inp.default_value = NoneV) => out = Return(NoneV)

(* ------------------------------------------------------------------ C5 *)
Distinct(q) == \A i, j \in 1..Len(q) : q[i] = q[j] => i = j

(* a name namedtuple takes as a field name *)
ValidField(name) == ~BadName(name) /\ name[1] # "_"

EnumOf(options) ==
    /\ out.tag = "return"
    /\ out.value.fields = options
    /\ \A i \in 1..Len(options) : getattr(out.value, options[i]) = options[i]

(* C5 as stated: for every sequence of distinct name strings the result   *)
(* has exactly those fields, in order, each reading as its own name.      *)
C5_AnyDistinctNames ==
    (Done("create_enum") /\ Distinct(inp.options)) => EnumOf(inp.options)

(* C5 amended: for every sequence of distinct names that are non-empty,   *)
(* made of letters, digits and "_", not keywords and not starting with a  *)
(* digit or "_", the result has exactly those fields, in order, each      *)
(* reading as its own name.                                               *)
C5_ValidDistinctNames ==
    (Done("create_enum") /\ Distinct(inp.options)
        /\ \A i \in 1..Len(inp.options) : ValidField(inp.options[i]))
    => EnumOf(inp.options)

C5_Witness ==
    /\ Done("create_enum")
    /\ inp.options = << <<"a">>, <<"b">> >>
    /\ out.tag = "return"
    /\ getattr(out.value, <<"b">>) = <<"b">>

(* ------------------------------------------------------------------ C6 *)
(* C6 as stated: a duplicate name is not rejected; a container comes back *)
(* and the duplicated field reads as its last occurrence.                 *)
C6_DuplicateAccepted ==
    (Done("create_enum") /\ ~Distinct(inp.options))
    => /\ out.tag = "return"
       /\ \A i \in 1..Len(inp.options) : getattr(out.value, inp.options[i]) = inp.options[i]

(* C6 amended: create_enum checks nothing itself, but namedtuple does: a  *)
(* duplicate name makes the call raise (ValueError when every name is     *)
(* non-empty) and no container comes back.                                *)
C6_DuplicateRejected ==
    (Done("create_enum") /\ ~Distinct(inp.options))
    => /\ out.tag = "raise"
       /\ out.tb = "namedtuple"
       /\ ((\A i \in 1..Len(inp.options) : inp.options[i] # <<>>) => out.type = "ValueError")

C6_Witness ==
    /\ Done("create_enum")
    /\ inp.options = << <<"a">>, <<"b">>, <<"a">> >>
    /\ out.tag = "raise"
    /\ out.type = "ValueError"

(* ------------------------------------------------------------------ C8 *)
(* the refs the caller holds are lists, none is default_value itself and  *)
(* no two are the same object                                             *)
FreshCopies ==
    \A i \in 1..Len(held) :
        /\ held[i].t = "list"
        /\ held[i].ref # inp.default_value.ref
        /\ \A j \in 1..Len(held) : held[i].ref = held[j].ref => i = j

Immutable(v) == v.t # "list"

(* C8 as stated: every suppressed call returns a fresh list equal to the  *)
(* default; after any suppressed calls and any mutations of the returned  *)
(* values the default is unchanged and the next call still returns a      *)
(* value equal to the original default.                                   *)
C8_DefaultNeverChanges ==
    pc \in {"called", "mutated"}
    => /\ FreshCopies
       /\ DeepVal(heap, inp.default_value) = DeepVal(Heap0, inp.default_value)
       /\ (pc = "called"
            => /\ out.tag = "return"
               /\ DeepVal(heap, out.value) = DeepVal(Heap0, inp.default_value))

(* C8 amended: every suppressed call returns a fresh list (not the        *)
(* default, not a list returned before) holding the elements the default  *)
(* holds; the default keeps holding the same elements whatever is done to *)
(* the returned lists; and when those elements are immutable the default  *)
(* is unchanged and the next call returns a value equal to the original.  *)
(* Elements that are mutable are shared with every returned list.         *)
C8_ShallowCopy ==
    pc \in {"called", "mutated"}
    => /\ FreshCopies
       /\ heap[inp.default_value.ref] = Heap0[inp.default_value.ref]
       /\ (pc = "called"
            => /\ out.tag = "return"
               /\ out.value = held[Len(held)]
               /\ heap[out.value.ref] = Heap0[inp.default_value.ref])
       /\ ((\A k \in 1..Len(Heap0[inp.default_value.ref]) :
                Immutable(Heap0[inp.default_value.ref][k]))
            => /\ DeepVal(heap, inp.default_value) = DeepVal(Heap0, inp.default_value)
               /\ (pc = "called"
                    => DeepVal(heap, out.value) = DeepVal(Heap0, inp.default_value)))

C8_Witness ==
    /\ pc = "called"
    /\ inp.default_value = ListRef(1)
    /\ Len(held) >= 1 + 1
    /\ heap[held[1].ref] # Heap0[1]
    /\ out = Return(held[Len(held)])
    /\ heap[out.value.ref] = <<IntV(1)>>

====
